---- MODULE Spec2Model ----
(***************************************************************************)
(* State-machine model of process_boat_data.py: the batch run that walks   *)
(* raw_json/<boat>/<day>/*.json(l), decodes each line, extracts the        *)
(* configured fields and writes one CSV per signal under                   *)
(* output/<boat>/<day>/.                                                   *)
(*                                                                         *)
(* A behaviour is one invocation of main() (SpecRerun: several in a row on *)
(* the same trees).  One action is one iteration of one loop of the        *)
(* program; an uncaught Python exception ends the run in pc = "crashed".   *)
(***************************************************************************)
EXTENDS Integers, Sequences, FiniteSets, TLC

(***************************************************************************)
(* Decoded JSON values (what json.loads returns).  Python None and JSON    *)
(* null are the same value.  An object keeps its keys in text order, as a  *)
(* Python dict does.                                                       *)
(***************************************************************************)
JNull == [k |-> "null"]
JNum(n) == [k |-> "num", n |-> n]
JBool(b) == [k |-> "bool", b |-> b]
\* a float, kept in thousandths
JFloat(milli) == [k |-> "float", milli |-> milli]
JStr(s) == [k |-> "str", s |-> s]
JList(xs) == [k |-> "list", xs |-> xs]
JObj(kv) == [k |-> "obj", kv |-> kv]

IsDict(v) == v.k = "obj"

\* `field in value` for a dict
HasKey(v, key) == \E i \in 1..Len(v.kv) : v.kv[i][1] = key

\* value[field] for a dict that has the key
Lookup(v, key) == v.kv[CHOOSE i \in 1..Len(v.kv) : v.kv[i][1] = key][2]

\* Python truthiness of a decoded value (`if msg_obj:`)
Truthy(v) ==
    CASE v.k = "null" -> FALSE
      [] v.k = "num"  -> v.n # 0
      [] v.k = "bool" -> v.b
      [] v.k = "float" -> v.milli # 0
      [] v.k = "str"  -> v.s # ""
      [] v.k = "list" -> v.xs # <<>>
      [] v.k = "obj"  -> v.kv # <<>>

(***************************************************************************)
(* GEAR_STATE_MAP and MESSAGE_CONFIGS, in the order of the dict literal.   *)
(* `field` is the result of field_path.split('.').                         *)
(***************************************************************************)
GearCodes == {0, 1, 2, 3, 255}

GEAR_STATE_MAP ==
    [c \in GearCodes |->
        CASE c = 0 -> "Neutral"
          [] c = 1 -> "Forward"
          [] c = 2 -> "Reverse"
          [] c = 3 -> "NotAvailable"
          [] c = 255 -> "Unknown"]

Cfg(key, mt, field, csv, tr) ==
    [key |-> key, message_type |-> mt, field |-> field, csv_name |-> csv, transform |-> tr]

MESSAGE_CONFIGS == <<
    Cfg("VolvoFuelLevel", "PentaEngineStatus", <<"fuel_level", "fuel_level1">>, "fuel_level1.csv", "none"),
    Cfg("EngineFuelEconomy", "PentaEngineStatus", <<"fuel_econ", "engine_fuel_rate">>, "engine_fuel_rate.csv", "none"),
    Cfg("EngineHours", "PentaEngineStatus", <<"hours", "engine_total_hours_of_operation">>, "engine_total_hours_of_operation.csv", "none"),
    Cfg("EngineTemperatures", "PentaEngineStatus", <<"temps", "engine_oil_temperature">>, "engine_oil_temperature.csv", "none"),
    Cfg("PentaEngineStatus_oil_pressure", "PentaEngineStatus", <<"pressures", "engine_oil_pressure">>, "engine_oil_pressure.csv", "none"),
    Cfg("EngineSpeed", "PentaEngineStatus", <<"speed", "engine_speed">>, "engine_speed.csv", "none"),
    Cfg("SeaState", "SeaState", <<"instant_g_force">>, "instant_g_force.csv", "none"),
    Cfg("Odometry", "Odometry", <<"odometer">>, "odometer.csv", "none"),
    Cfg("PentaEngineStatus_gear", "PentaEngineStatus", <<"vessel_status", "current_gear">>, "current_gear.csv", "gear"),
    Cfg("VehicleCommand", "VehicleCommand", <<"throttle">>, "throttle.csv", "none"),
    Cfg("VesselHeading", "VesselHeading", <<"heading">>, "heading.csv", "deg"),
    Cfg("PentaEngineStatus_steering", "PentaEngineStatus", <<"vessel_status", "current_steering_angle">>, "current_steering_angle.csv", "none"),
    Cfg("Ahrs_roll", "Ahrs", <<"attitude", "roll_deg">>, "roll_deg.csv", "none"),
    Cfg("Ahrs_pitch", "Ahrs", <<"attitude", "pitch_deg">>, "pitch_deg.csv", "none"),
    Cfg("Ahrs_yaw", "Ahrs", <<"attitude", "yaw_deg">>, "yaw_deg.csv", "none") >>

NCfg == Len(MESSAGE_CONFIGS)
ConfigKeys == {MESSAGE_CONFIGS[i].key : i \in 1..NCfg}
CfgOf(key) == MESSAGE_CONFIGS[CHOOSE i \in 1..NCfg : MESSAGE_CONFIGS[i].key = key]

(***************************************************************************)
(* The two transforms.  Each is called only on a non-None value.           *)
(***************************************************************************)
\* a number in thousandths: True and False are the integers 1 and 0
NumMilli(x) ==
    CASE x.k = "num" -> x.n * 1000
      [] x.k = "bool" -> IF x.b THEN 1000 ELSE 0
      [] x.k = "float" -> x.milli

IsNumber(x) == x.k \in {"num", "bool", "float"}

\* str(x) inside the f-string
Str(x) ==
    CASE x.k = "num" -> ToString(x.n)
      [] x.k = "str" -> x.s
      [] x.k = "bool" -> IF x.b THEN "True" ELSE "False"
      [] x.k = "float" -> ToString(x.milli) \o "e-3"
      [] OTHER -> "repr"

\* GEAR_STATE_MAP.get(x, ...) hashes x: a list or a dict is unhashable (TypeError)
GearRaises(x) == x.k \in {"list", "obj"}

\* a dict key matches every number equal to it: 1, 1.0 and True are one key
GearTransform(x) ==
    IF x = JNull THEN JNull
    ELSE IF IsNumber(x) /\ NumMilli(x) % 1000 = 0 /\ NumMilli(x) \div 1000 \in GearCodes
         THEN JStr(GEAR_STATE_MAP[NumMilli(x) \div 1000])
         ELSE JStr("Unknown(" \o Str(x) \o ")")

\* x * 180.0 / 3.14159265359: only a number can be multiplied by a float
DegRaises(x) == ~IsNumber(x)

\* the float result, kept in thousandths of a degree
DegTransform(x) == JFloat((NumMilli(x) * 180000) \div 3141593)

TransformRaises(tr, x) ==
    CASE tr = "gear" -> GearRaises(x)
      [] tr = "deg" -> DegRaises(x)
      [] OTHER -> FALSE

Transform(tr, x) ==
    CASE tr = "gear" -> GearTransform(x)
      [] tr = "deg" -> DegTransform(x)
      [] OTHER -> x

(***************************************************************************)
(* get_nested_value(data, field_path)                                      *)
(***************************************************************************)
RECURSIVE get_nested_value(_, _)
get_nested_value(value, fields) ==
    IF fields = <<>> THEN value
    ELSE IF IsDict(value) /\ HasKey(value, Head(fields))
         THEN get_nested_value(Lookup(value, Head(fields)), Tail(fields))
         ELSE JNull

(***************************************************************************)
(* One record of one file: the body of `for record in records`.            *)
(* The state threaded through is [raised, md]: whether an exception has    *)
(* escaped, and message_data.                                              *)
(***************************************************************************)
Point(boat, v, ts) == [boat |-> boat, value |-> v, timestamp |-> ts]

\* the append without its guard
StorePointUnguarded(md, key, boat, v, ts) ==
    [md EXCEPT ![key] = Append(@, Point(boat, v, ts))]

\* `if field_value is not None: message_data[config_key].append({...})`
StorePoint(md, key, boat, v, ts) ==
    IF v # JNull THEN [md EXCEPT ![key] = Append(@, Point(boat, v, ts))] ELSE md

\* the body of the loop without the test of the message type
ApplyConfigAnyType(st, cfg, message_type, body, boat, ts) ==
    IF st.raised THEN st
    ELSE LET fv == get_nested_value(body, cfg.field) IN
         IF cfg.transform # "none" /\ fv # JNull
         THEN IF TransformRaises(cfg.transform, fv)
              THEN [st EXCEPT !.raised = TRUE]
              ELSE [st EXCEPT !.md = StorePoint(@, cfg.key, boat, Transform(cfg.transform, fv), ts)]
         ELSE [st EXCEPT !.md = StorePoint(@, cfg.key, boat, fv, ts)]

\* the body of `for config_key, config in MESSAGE_CONFIGS.items()`
ApplyConfig(st, cfg, message_type, body, boat, ts) ==
    IF st.raised \/ message_type # cfg.message_type THEN st
    ELSE LET fv == get_nested_value(body, cfg.field) IN
         IF cfg.transform # "none" /\ fv # JNull
         THEN IF TransformRaises(cfg.transform, fv)
              THEN [st EXCEPT !.raised = TRUE]
              ELSE [st EXCEPT !.md = StorePoint(@, cfg.key, boat, Transform(cfg.transform, fv), ts)]
         ELSE [st EXCEPT !.md = StorePoint(@, cfg.key, boat, fv, ts)]

RECURSIVE ApplyConfigs(_, _, _, _, _, _)
ApplyConfigs(st, i, message_type, body, boat, ts) ==
    IF i > NCfg THEN st
    ELSE ApplyConfigs(ApplyConfig(st, MESSAGE_CONFIGS[i], message_type, body, boat, ts),
                      i + 1, message_type, body, boat, ts)

\* record.get('ts', '')
RecordTs(record) == IF HasKey(record, "ts") THEN Lookup(record, "ts") ELSE JStr("")

\* record.get('msg', {})
RecordMsg(record) == IF HasKey(record, "msg") THEN Lookup(record, "msg") ELSE JObj(<<>>)

process_record(record, md, boat) ==
    IF ~IsDict(record)
    THEN [raised |-> TRUE, md |-> md]            \* record.get: AttributeError
    ELSE LET timestamp == RecordTs(record)
             msg_obj == RecordMsg(record)
         IN  IF ~Truthy(msg_obj) THEN [raised |-> FALSE, md |-> md]
             ELSE IF ~IsDict(msg_obj)
                  THEN [raised |-> TRUE, md |-> md]   \* msg_obj.keys(): AttributeError
                  ELSE ApplyConfigs([raised |-> FALSE, md |-> md], 1,
                                    msg_obj.kv[1][1], msg_obj.kv[1][2], boat, timestamp)

(***************************************************************************)
(* read_json_file.  A line of text is one of: blank; text that json.loads  *)
(* rejects with JSONDecodeError ("bad"); text on which json.loads raises   *)
(* another exception, e.g. RecursionError on nesting deeper than the       *)
(* decoder's stack or ValueError on an integer literal beyond the digit    *)
(* limit ("deep"); or JSON text, with the value it decodes to.  The content*)
(* of a path that cannot be opened or read is Unreadable.                  *)
(***************************************************************************)
Absent == [st |-> "absent", lines |-> <<>>]
Unreadable == [st |-> "unreadable", lines |-> <<>>]
File(lines) == [st |-> "file", lines |-> lines]

Blank == [kind |-> "blank"]
Bad == [kind |-> "bad"]
Deep == [kind |-> "deep"]
Json(v) == [kind |-> "json", v |-> v]

Wrapped(ts, mt, body) ==
    Json(JObj(<< <<"ts", ts>>, <<"msg", JObj(<< <<mt, body>> >>)>> >>))

Odo(ts, v) == Wrapped(ts, "Odometry", JObj(<< <<"odometer", v>> >>))

\* no 'ts'; gear code 2, engine speed null, engine hours 9
PentaNoTs ==
    Json(JObj(<< <<"msg", JObj(<< <<"PentaEngineStatus", JObj(<<
        <<"vessel_status", JObj(<< <<"current_gear", JNum(2)>> >>)>>,
        <<"speed", JObj(<< <<"engine_speed", JNull>> >>)>>,
        <<"hours", JObj(<< <<"engine_total_hours_of_operation", JNum(9)>> >>)>> >>)>> >>)>> >>))

\* the gear field holds a list
PentaGearList ==
    Wrapped(JNum(1), "PentaEngineStatus",
            JObj(<< <<"vessel_status", JObj(<< <<"current_gear", JList(<<JNum(1)>>)>> >>)>> >>))

\* a SeaState message whose body holds the field of the Odometry definition
SeaStateOdometer == Wrapped(JNum(1), "SeaState", JObj(<< <<"odometer", JNum(3)>> >>))

\* the lines a file of the model can hold, by name
Lines == {"blank", "bad", "deep", "list", "o15", "o16", "o27", "oa5", "penta", "nomsg",
          "msgstr", "gearlist", "seaodo"}

LineText(l) ==
    CASE l = "blank"    -> Blank
      [] l = "bad"      -> Bad
      [] l = "deep"     -> Deep
      [] l = "list"     -> Json(JList(<<JNum(1)>>))
      [] l = "o15"      -> Odo(JNum(1), JNum(5))
      [] l = "o16"      -> Odo(JNum(1), JNum(6))
      [] l = "o27"      -> Odo(JNum(2), JNum(7))
      [] l = "oa5"      -> Odo(JStr("a"), JNum(5))
      [] l = "penta"    -> PentaNoTs
      [] l = "nomsg"    -> Json(JObj(<< <<"ts", JNum(2)>> >>))
      [] l = "msgstr"   -> Json(JObj(<< <<"ts", JNum(2)>>, <<"msg", JStr("abc")>> >>))
      [] l = "gearlist" -> PentaGearList
      [] l = "seaodo"   -> SeaStateOdometer

\* json.loads(line)
JsonLoads(line) ==
    CASE line.kind = "json" -> [res |-> "ok", v |-> line.v]
      [] line.kind = "bad"  -> [res |-> "JSONDecodeError"]
      [] OTHER              -> [res |-> "Exception"]

RECURSIVE ReadLines(_, _, _)
ReadLines(lines, i, acc) ==
    IF i > Len(lines) THEN acc
    ELSE IF LineText(lines[i]).kind = "blank" THEN ReadLines(lines, i + 1, acc)
    ELSE LET r == JsonLoads(LineText(lines[i])) IN
         CASE r.res = "ok" -> ReadLines(lines, i + 1, [acc EXCEPT !.records = Append(@, r.v)])
           [] r.res = "JSONDecodeError" -> ReadLines(lines, i + 1, [acc EXCEPT !.warnings = @ + 1])
           [] OTHER -> [acc EXCEPT !.errors = @ + 1]    \* the outer `except Exception`

read_json_file(content) ==
    IF content.st # "file"                      \* open() or the read raises
    THEN [records |-> <<>>, warnings |-> 0, errors |-> 1]
    ELSE ReadLines(content.lines, 1, [records |-> <<>>, warnings |-> 0, errors |-> 0])

(***************************************************************************)
(* data_points.sort(key=lambda x: x['timestamp']) and the CSV writer.      *)
(***************************************************************************)
\* the order of the string timestamps of the model
StrRank(s) == CASE s = "" -> 0 [] s = "a" -> 1 [] s = "b" -> 2 [] OTHER -> 3

\* a < b is defined between two numbers and between two strings
Comparable(a, b) == (a.k = "num" /\ b.k = "num") \/ (a.k = "str" /\ b.k = "str")

TsLess(a, b) == IF a.k = "num" THEN a.n < b.n ELSE StrRank(a.s) < StrRank(b.s)

\* list.sort raises TypeError as soon as it compares two keys that have no order
SortRaises(s) ==
    \E i, j \in 1..Len(s) : i # j /\ ~Comparable(s[i].timestamp, s[j].timestamp)

\* x goes after every element that is not greater than it
RECURSIVE InsertStable(_, _)
InsertStable(sorted, x) ==
    IF sorted = <<>> THEN <<x>>
    ELSE IF TsLess(x.timestamp, Head(sorted).timestamp) THEN <<x>> \o sorted
    ELSE <<Head(sorted)>> \o InsertStable(Tail(sorted), x)

RECURSIVE SortFrom(_, _, _)
SortFrom(s, i, acc) == IF i > Len(s) THEN acc ELSE SortFrom(s, i + 1, InsertStable(acc, s[i]))

SortByTimestamp(s) == SortFrom(s, 1, <<>>)

Header == <<"boat", "value", "timestamp">>

\* what csv.writer puts in a cell: '' for None, the string itself, str(x) otherwise
CsvField(v) ==
    CASE v.k = "null"  -> ""
      [] v.k = "str"   -> v.s
      [] v.k = "num"   -> ToString(v.n)
      [] v.k = "float" -> ToString(v.milli) \o "e-3"
      [] v.k = "bool"  -> IF v.b THEN "True" ELSE "False"
      [] OTHER         -> "repr"

CsvRow(p) == <<p.boat, CsvField(p.value), CsvField(p.timestamp)>>

CsvRows(s) == [i \in 1..Len(s) |-> CsvRow(s[i])]

(***************************************************************************)
(* The export loop of process_boat_day_data, over MESSAGE_CONFIGS in       *)
(* order.  The state threaded through is [raised, tree, warnings].  The    *)
(* file is opened (and truncated) and its header written before the sort:  *)
(* when the sort raises, the `with` block closes a file holding the header *)
(* alone.                                                                  *)
(***************************************************************************)
\* output_dir = output_base_dir / boat_name / day_name
OutputDir(boat, day) == <<boat, day>>

WriteFile(tree, path, content) ==
    [p \in DOMAIN tree \cup {path} |-> IF p = path THEN content ELSE tree[p]]

ExportSignal(st, cfg, md, dir) ==
    IF st.raised THEN st
    ELSE LET data_points == md[cfg.key]
             csv_path == dir \o <<cfg.csv_name>>
         IN  IF data_points # <<>>
             THEN IF SortRaises(data_points)
                  THEN [st EXCEPT !.raised = TRUE,
                                  !.tree = WriteFile(@, csv_path, <<Header>>)]
                  ELSE [st EXCEPT !.tree = WriteFile(@, csv_path,
                                        <<Header>> \o CsvRows(SortByTimestamp(data_points)))]
             ELSE [st EXCEPT !.warnings = @ + 1]

\* the iterations i..n of `for config_key, config in MESSAGE_CONFIGS.items()`
RECURSIVE ExportSignals(_, _, _, _, _)
ExportSignals(st, i, n, md, dir) ==
    IF i > n THEN st
    ELSE ExportSignals(ExportSignal(st, MESSAGE_CONFIGS[i], md, dir), i + 1, n, md, dir)

(***************************************************************************)
(* The input tree.  A full raw_json holds boat b1 with day d1, which may   *)
(* hold a.json and b.json, and boat b2 with day d1, which holds a file     *)
(* that is still compressed and may hold c.jsonl.  A bare raw_json holds   *)
(* only boat b3, which has no day directory.                               *)
(***************************************************************************)
MaxInput == 2

NoFilter == ""

Boats == {"b1", "b2", "b3"}

Days == {"d1"}

Units == {<<"b1", "d1">>, <<"b2", "d1">>}

Slots == {<<"b1", "d1", "a.json">>, <<"b1", "d1", "b.json">>, <<"b2", "d1", "c.jsonl">>}

\* Path.glob(pattern) on a file name
GlobMatches(name, pattern) ==
    CASE pattern = "*.json"  -> name \in {"a.json", "b.json"}
      [] pattern = "*.jsonl" -> name \in {"c.jsonl"}

\* str(f).endswith('.zst')
EndsWithZst(name) == name = "x.jsonl.zst"

SeqsUpTo(S, n) == UNION {[1..m -> S] : m \in 0..n}

\* the content of a file with no line: the file may also be missing or unreadable
Contents(lines) == IF lines = <<>> THEN {Absent, Unreadable, File(<<>>)} ELSE {File(lines)}

NoFiles == [s \in Slots |-> Absent]

\* the tree whose files hold the lines of `all`, cut in three
Tree(ca, cb, cc) ==
    [s \in Slots |-> CASE s[3] = "a.json" -> ca [] s[3] = "b.json" -> cb [] OTHER -> cc]

Cuts(n) == {c \in (0..n) \X (0..n) : c[1] <= c[2]}

VARIABLES
    rootState,    \* "missing", "empty" (no boat directory), "bare" or "full"
    files,        \* the content of each file slot of the input tree
    boatFilter,   \* --boat, NoFilter when not given
    dayFilter,    \* --day, NoFilter when not given
    pc,           \* "start", "boats", "done", "crashed" or "killed"
    exitCode,     \* the exit status of the process once it has ended
    boatsTodo,    \* boat directories the loop over boat_dirs has not reached
    curBoat,      \* the boat of the current iteration, NoBoat outside one
    daysTodo,     \* day directories of curBoat the loop over day_dirs has not reached
    loc,          \* per unit: the locals of its call of process_boat_day_data
    outTree,      \* the CSV files under the output root: path -> rows
    outDirs,      \* the directories created under the output root
    log,          \* the number of warnings and of errors logged
    gearIn,       \* the value a call of the gear transform is given
    gearOut,      \* the outcome of that call, NotCalled before it
    workers,      \* how many units may be in progress at once: 1 in the program
    run,          \* the number of the current invocation
    firstOut      \* the output tree the first invocation left

vars == <<rootState, files, boatFilter, dayFilter, pc, exitCode, boatsTodo, curBoat,
          daysTodo, loc, outTree, outDirs, log, workers, run, firstOut, gearIn, gearOut>>

inputs == <<rootState, files, boatFilter, dayFilter, workers, gearIn, gearOut>>

NotCalled == [res |-> "none"]

NoBoat == ""

EmptyMd == [key \in ConfigKeys |-> <<>>]

Idle == [phase |-> "idle", listing |-> <<>>, fileIdx |-> 0, records |-> <<>>, recIdx |-> 0,
         md |-> EmptyMd, readWarnings |-> 0, readErrors |-> 0]

NoTree == [p \in {} |-> <<>>]

Warn(l, n) == [l EXCEPT !.warning = @ + n]
Err(l, n) == [l EXCEPT !.error = @ + n]

\* The size of an input: the lines of its files, the files that are empty or
\* unreadable, and the filters given.  Init draws every input of size <= MaxInput.
SlotSize(c) == IF c.st = "file" /\ c.lines # <<>> THEN Len(c.lines)
               ELSE IF c.st = "absent" THEN 0 ELSE 1

InputSize(fs, bf, df) ==
    SlotSize(fs[<<"b1", "d1", "a.json">>]) + SlotSize(fs[<<"b1", "d1", "b.json">>])
    + SlotSize(fs[<<"b2", "d1", "c.jsonl">>])
    + (IF bf = NoFilter THEN 0 ELSE 1) + (IF df = NoFilter THEN 0 ELSE 1)

InitRun ==
    /\ rootState \in {"missing", "empty", "bare", "full"}
    /\ IF rootState = "full"
       THEN \E all \in SeqsUpTo(Lines, MaxInput) : \E cut \in Cuts(Len(all)) :
               \E ca \in Contents(SubSeq(all, 1, cut[1])),
                  cb \in Contents(SubSeq(all, cut[1] + 1, cut[2])),
                  cc \in Contents(SubSeq(all, cut[2] + 1, Len(all))) :
                  files = Tree(ca, cb, cc)
       ELSE files = NoFiles
    /\ boatFilter \in {NoFilter, "b1", "zz"}
    /\ dayFilter \in {NoFilter, "d1", "d2"}
    /\ InputSize(files, boatFilter, dayFilter) <= MaxInput
    /\ pc = "start"
    /\ exitCode = -1
    /\ boatsTodo = {}
    /\ curBoat = NoBoat
    /\ daysTodo = {}
    /\ loc = [u \in Units |-> Idle]
    /\ outTree = NoTree
    /\ outDirs = {}
    /\ log = [warning |-> 0, error |-> 0]
    /\ run = 1
    /\ firstOut = NoTree
    /\ gearIn = JNull
    /\ gearOut = NotCalled

Init == InitRun /\ workers = 1

\* [d for d in raw_json_dir.iterdir() if d.is_dir()]
BoatDirs ==
    CASE rootState = "full" -> {"b1", "b2"}
      [] rootState = "bare" -> {"b3"}
      [] OTHER -> {}

\* [d for d in boat_dir.iterdir() if d.is_dir()]
DayDirs(b) == IF b \in {"b1", "b2"} THEN {"d1"} ELSE {}

\* the names in a day directory
FilesIn(u) ==
    {s[3] : s \in {t \in Slots : t[1] = u[1] /\ t[2] = u[2] /\ files[t].st # "absent"}}
    \cup (IF u = <<"b2", "d1">> THEN {"x.jsonl.zst"} ELSE {})

Perms(S) == {f \in [1..Cardinality(S) -> S] : \A i, j \in 1..Cardinality(S) : f[i] = f[j] => i = j}

NotZst(name) == ~EndsWithZst(name)

\* the lists json_files can be: each glob returns its matches in directory order
Listings(u) ==
    { SelectSeq(a \o b, NotZst) :
        a \in Perms({n \in FilesIn(u) : GlobMatches(n, "*.json")}),
        b \in Perms({n \in FilesIn(u) : GlobMatches(n, "*.jsonl")}) }

Active == {u \in Units : loc[u].phase = "files"}

\* the loops call process_boat_day_data and wait for it to return
CanStart == Cardinality(Active) < workers

(***************************************************************************)
(* process_all_boats up to the loop over boat_dirs, and main's return.     *)
(***************************************************************************)
MainRootMissing ==
    /\ pc = "start"
    /\ rootState = "missing"
    /\ log' = Err(log, 1)
    /\ pc' = "done"
    /\ exitCode' = 0
    /\ UNCHANGED <<inputs, boatsTodo, curBoat, daysTodo, loc, outTree, outDirs, run, firstOut>>

MainNoBoats ==
    /\ pc = "start"
    /\ rootState # "missing"
    /\ BoatDirs = {}
    /\ log' = Warn(log, 1)
    /\ pc' = "done"
    /\ exitCode' = 0
    /\ UNCHANGED <<inputs, boatsTodo, curBoat, daysTodo, loc, outTree, outDirs, run, firstOut>>

MainBoatNotFound ==
    /\ pc = "start"
    /\ rootState # "missing"
    /\ BoatDirs # {}
    /\ boatFilter # NoFilter
    /\ {d \in BoatDirs : d = boatFilter} = {}
    /\ log' = Err(log, 1)
    /\ pc' = "done"
    /\ exitCode' = 0
    /\ UNCHANGED <<inputs, boatsTodo, curBoat, daysTodo, loc, outTree, outDirs, run, firstOut>>

MainSelect ==
    /\ pc = "start"
    /\ rootState # "missing"
    /\ BoatDirs # {}
    /\ LET boat_dirs == IF boatFilter # NoFilter THEN {d \in BoatDirs : d = boatFilter}
                        ELSE BoatDirs
       IN  /\ boat_dirs # {}
           /\ boatsTodo' = boat_dirs
    /\ pc' = "boats"
    /\ UNCHANGED <<inputs, exitCode, curBoat, daysTodo, loc, outTree, outDirs, log, run, firstOut>>

(***************************************************************************)
(* One iteration of `for boat_dir in boat_dirs`, up to its loop over days. *)
(* iterdir yields the directories in an order the file system chooses.     *)
(***************************************************************************)
BoatLoopReady == pc = "boats" /\ daysTodo = {} /\ CanStart

NextBoatNoDays(b) ==
    /\ BoatLoopReady
    /\ b \in boatsTodo
    /\ DayDirs(b) = {}
    /\ log' = Warn(log, 1)
    /\ boatsTodo' = boatsTodo \ {b}
    /\ curBoat' = NoBoat
    /\ UNCHANGED <<inputs, pc, exitCode, daysTodo, loc, outTree, outDirs, run, firstOut>>

NextBoatDayNotFound(b) ==
    /\ BoatLoopReady
    /\ b \in boatsTodo
    /\ DayDirs(b) # {}
    /\ dayFilter # NoFilter
    /\ {d \in DayDirs(b) : d = dayFilter} = {}
    /\ log' = Warn(log, 1)
    /\ boatsTodo' = boatsTodo \ {b}
    /\ curBoat' = NoBoat
    /\ UNCHANGED <<inputs, pc, exitCode, daysTodo, loc, outTree, outDirs, run, firstOut>>

NextBoat(b) ==
    /\ BoatLoopReady
    /\ b \in boatsTodo
    /\ DayDirs(b) # {}
    /\ LET day_dirs == IF dayFilter # NoFilter THEN {d \in DayDirs(b) : d = dayFilter}
                       ELSE DayDirs(b)
       IN  /\ day_dirs # {}
           /\ daysTodo' = day_dirs
    /\ boatsTodo' = boatsTodo \ {b}
    /\ curBoat' = b
    /\ UNCHANGED <<inputs, pc, exitCode, loc, outTree, outDirs, log, run, firstOut>>

\* both loops are over: main logs "Processing complete!" and returns
MainReturn ==
    /\ BoatLoopReady
    /\ Active = {}
    /\ boatsTodo = {}
    /\ pc' = "done"
    /\ exitCode' = 0
    /\ curBoat' = NoBoat
    /\ UNCHANGED <<inputs, boatsTodo, daysTodo, loc, outTree, outDirs, log, run, firstOut>>

(***************************************************************************)
(* process_boat_day_data(day_dir, output_dir, boat_name) for the unit      *)
(* u = <<boat, day>>.                                                      *)
(***************************************************************************)
\* the call, up to the loop over json_files, on a directory with no eligible file
StartUnitNoFiles(d) ==
    /\ pc = "boats" /\ CanStart
    /\ d \in daysTodo
    /\ Listings(<<curBoat, d>>) = {<<>>}
    /\ daysTodo' = daysTodo \ {d}
    /\ log' = Warn(log, 1)
    /\ loc' = [loc EXCEPT ![<<curBoat, d>>] = [Idle EXCEPT !.phase = "skipped"]]
    /\ UNCHANGED <<inputs, pc, exitCode, boatsTodo, curBoat, outTree, outDirs, run, firstOut>>

StartUnit(d) ==
    /\ pc = "boats" /\ CanStart
    /\ d \in daysTodo
    /\ \E json_files \in Listings(<<curBoat, d>>) :
          /\ json_files # <<>>
          /\ loc' = [loc EXCEPT ![<<curBoat, d>>] =
                        [Idle EXCEPT !.phase = "files", !.listing = json_files]]
    /\ daysTodo' = daysTodo \ {d}
    /\ UNCHANGED <<inputs, pc, exitCode, boatsTodo, curBoat, outTree, outDirs, log, run, firstOut>>

\* records = read_json_file(json_file), for the next file of json_files
ReadFile(u) ==
    /\ pc = "boats"
    /\ loc[u].phase = "files"
    /\ loc[u].recIdx = Len(loc[u].records)
    /\ loc[u].fileIdx < Len(loc[u].listing)
    /\ LET name == loc[u].listing[loc[u].fileIdx + 1]
           r == read_json_file(files[<<u[1], u[2], name>>])
       IN  /\ loc' = [loc EXCEPT ![u].fileIdx = @ + 1,
                                 ![u].records = r.records,
                                 ![u].recIdx = 0,
                                 ![u].readWarnings = r.warnings,
                                 ![u].readErrors = r.errors]
           /\ log' = Err(Warn(log, r.warnings), r.errors)
    /\ UNCHANGED <<inputs, pc, exitCode, boatsTodo, curBoat, daysTodo, outTree, outDirs, run, firstOut>>

\* one iteration of `for record in records`; an exception ends the process
ProcessRecord(u) ==
    /\ pc = "boats"
    /\ loc[u].phase = "files"
    /\ loc[u].recIdx < Len(loc[u].records)
    /\ \E r \in {process_record(loc[u].records[loc[u].recIdx + 1], loc[u].md, u[1])} :
           /\ loc' = [loc EXCEPT ![u].recIdx = @ + 1, ![u].md = r.md,
                                 ![u].phase = IF r.raised THEN "raised" ELSE @]
           /\ pc' = IF r.raised THEN "crashed" ELSE pc
           /\ exitCode' = IF r.raised THEN 1 ELSE exitCode
    /\ UNCHANGED <<inputs, boatsTodo, curBoat, daysTodo, outTree, outDirs, log, run, firstOut>>

\* output_dir.mkdir(parents=True, exist_ok=True) and the loop that writes the CSV files
ExportUnit(u) ==
    /\ pc = "boats"
    /\ loc[u].phase = "files"
    /\ loc[u].recIdx = Len(loc[u].records)
    /\ loc[u].fileIdx = Len(loc[u].listing)
    /\ \E r \in {ExportSignals([raised |-> FALSE, tree |-> outTree, warnings |-> 0],
                              1, NCfg, loc[u].md, OutputDir(u[1], u[2]))} :
           /\ outTree' = r.tree
           /\ log' = Warn(log, r.warnings)
           /\ pc' = IF r.raised THEN "crashed" ELSE pc
           /\ exitCode' = IF r.raised THEN 1 ELSE exitCode
           /\ loc' = [loc EXCEPT ![u].phase = IF r.raised THEN "raised" ELSE "done"]
    /\ outDirs' = outDirs \cup {OutputDir(u[1], u[2])}
    /\ UNCHANGED <<inputs, boatsTodo, curBoat, daysTodo, run, firstOut>>

Next ==
    \/ MainRootMissing
    \/ MainNoBoats
    \/ MainBoatNotFound
    \/ MainSelect
    \/ \E b \in Boats : NextBoatNoDays(b)
    \/ \E b \in Boats : NextBoatDayNotFound(b)
    \/ \E b \in Boats : NextBoat(b)
    \/ MainReturn
    \/ \E d \in Days : StartUnitNoFiles(d)
    \/ \E d \in Days : StartUnit(d)
    \/ \E u \in Units : ReadFile(u)
    \/ \E u \in Units : ProcessRecord(u)
    \/ \E u \in Units : ExportUnit(u)

Spec == Init /\ [][Next]_vars

(***************************************************************************)
(* The process is killed.  Between two steps nothing else changes.  Inside *)
(* the export loop, the files of the signals before signal i are written,  *)
(* and the file of signal i has been opened for writing: the file system   *)
(* holds a proper prefix of its rows (none, while the header is still in   *)
(* the writer's buffer).                                                   *)
(***************************************************************************)
Kill ==
    /\ pc \in {"start", "boats"}
    /\ pc' = "killed"
    /\ UNCHANGED <<inputs, exitCode, boatsTodo, curBoat, daysTodo, loc, outTree, outDirs, log,
                   run, firstOut>>

KillDuringExport(u) ==
    /\ pc = "boats"
    /\ loc[u].phase = "files"
    /\ loc[u].recIdx = Len(loc[u].records)
    /\ loc[u].fileIdx = Len(loc[u].listing)
    /\ \E i \in 1..NCfg :
          LET dir == OutputDir(u[1], u[2])
              before == ExportSignals([raised |-> FALSE, tree |-> outTree, warnings |-> 0],
                                      1, i - 1, loc[u].md, dir)
              data_points == loc[u].md[MESSAGE_CONFIGS[i].key]
          IN  /\ ~before.raised
              /\ data_points # <<>>
              /\ \E n \in 0..Len(data_points) :
                    LET written == IF SortRaises(data_points) THEN <<Header>>
                                   ELSE <<Header>> \o CsvRows(SortByTimestamp(data_points))
                    IN  /\ n < Len(written)
                        /\ outTree' = WriteFile(before.tree,
                                                dir \o <<MESSAGE_CONFIGS[i].csv_name>>,
                                                SubSeq(written, 1, n))
              /\ log' = Warn(log, before.warnings)
    /\ pc' = "killed"
    /\ outDirs' = outDirs \cup {OutputDir(u[1], u[2])}
    /\ UNCHANGED <<inputs, exitCode, boatsTodo, curBoat, daysTodo, loc, run, firstOut>>

NextKill == Next \/ Kill \/ \E u \in Units : KillDuringExport(u)

SpecKill == Init /\ [][NextKill]_vars

(***************************************************************************)
(* The same command is run again, on the same input tree and output root.  *)
(***************************************************************************)
MaxRuns == 2

Rerun ==
    /\ pc = "done"
    /\ run < MaxRuns
    /\ run' = run + 1
    /\ firstOut' = IF run = 1 THEN outTree ELSE firstOut
    /\ pc' = "start"
    /\ exitCode' = -1
    /\ boatsTodo' = {}
    /\ curBoat' = NoBoat
    /\ daysTodo' = {}
    /\ loc' = [u \in Units |-> Idle]
    /\ log' = [warning |-> 0, error |-> 0]
    /\ UNCHANGED <<inputs, outTree, outDirs>>

NextRerun == Next \/ Rerun

SpecRerun == Init /\ [][NextRerun]_vars

(***************************************************************************)
(* The units handed to a pool of workers (section 5 of the specification): *)
(* the loops start a unit as soon as a worker is free, and the steps of    *)
(* the units in progress interleave.                                       *)
(***************************************************************************)
PoolSize == 2

InitPar == InitRun /\ workers = PoolSize

SpecPar == InitPar /\ [][Next]_vars

(***************************************************************************)
(* The gear transform on its own: the lambda of                            *)
(* MESSAGE_CONFIGS['PentaEngineStatus_gear'] called on one value that a    *)
(* JSON field can hold.                                                    *)
(***************************************************************************)
MaxGearInput == 256

GearInputs ==
    {JNull, JBool(TRUE), JBool(FALSE), JStr(""), JStr("a"), JStr("1"),
     JList(<<>>), JList(<<JNum(1)>>), JObj(<<>>), JObj(<< <<"a", JNum(1)>> >>)}
    \cup {JNum(n) : n \in -1..MaxGearInput}
    \cup {JFloat(m) : m \in {0, 1000, 2500, 255000}}

\* config['transform'](x): the value returned, or the exception raised
GearCall(x) ==
    IF x # JNull /\ GearRaises(x) THEN [res |-> "TypeError"]
    ELSE [res |-> "ok", v |-> GearTransform(x)]

InitGear ==
    /\ gearIn \in GearInputs
    /\ gearOut = NotCalled
    /\ rootState = "missing"
    /\ files = NoFiles
    /\ boatFilter = NoFilter
    /\ dayFilter = NoFilter
    /\ workers = 1
    /\ pc = "gear"
    /\ exitCode = -1
    /\ boatsTodo = {}
    /\ curBoat = NoBoat
    /\ daysTodo = {}
    /\ loc = [u \in Units |-> Idle]
    /\ outTree = NoTree
    /\ outDirs = {}
    /\ log = [warning |-> 0, error |-> 0]
    /\ run = 1
    /\ firstOut = NoTree

ApplyGear ==
    /\ pc = "gear"
    /\ gearOut = NotCalled
    /\ gearOut' = GearCall(gearIn)
    /\ UNCHANGED <<rootState, files, boatFilter, dayFilter, workers, gearIn, pc, exitCode,
                   boatsTodo, curBoat, daysTodo, loc, outTree, outDirs, log, run, firstOut>>

SpecGear == InitGear /\ [][ApplyGear]_vars

(***************************************************************************)
(* Properties.                                                             *)
(***************************************************************************)
Ended == pc \in {"done", "crashed"}

\* the two conditions the specification calls fatal
FatalCondition ==
    \/ rootState = "missing"
    \/ boatFilter # NoFilter /\ boatFilter \notin BoatDirs

NoUnitProcessed == \A u \in Units : loc[u].phase = "idle"

\* C1: a run ends with a non-zero exit status, and has processed no unit, exactly
\* when the input root is missing or the boat filter names no boat directory;
\* every other run ends with exit status 0.
C1_ExitStatusIffFatal ==
    Ended => /\ FatalCondition => (exitCode # 0 /\ NoUnitProcessed)
             /\ ~FatalCondition => exitCode = 0

\* the lines of a file that are not blank
NonBlank(lines) == {i \in 1..Len(lines) : LineText(lines[i]).kind # "blank"}

\* the file a unit has read last
LastRead(u) == files[<<u[1], u[2], loc[u].listing[loc[u].fileIdx]>>]

\* C2: only the fatal conditions halt the run: whatever the lines of the files
\* decode to, no record and no file aborts the run, so every unit, file and
\* line after it is still reached.
C2_OnlyFatalHalts == pc # "crashed"

\* the record a ProcessRecord step of unit u handles
CurRecord(u) == loc[u].records[loc[u].recIdx + 1]

StepsRecord(u) ==
    /\ loc[u].phase = "files"
    /\ loc[u].recIdx < Len(loc[u].records)
    /\ loc'[u].recIdx = loc[u].recIdx + 1

\* a decoded record without 'ts', or without 'msg' or with an empty one
LacksTsOrMsg(record) ==
    /\ IsDict(record)
    /\ \/ ~HasKey(record, "ts")
       \/ ~HasKey(record, "msg")
       \/ RecordMsg(record) = JObj(<<>>)

\* C3: a record that lacks the timestamp field, or lacks the payload wrapper or
\* has an empty one, is dropped: processing it appends no Data Point to any series.
C3_DroppedWithoutTsOrMsg ==
    [][\A u \in Units :
          (StepsRecord(u) /\ LacksTsOrMsg(CurRecord(u))) => loc'[u].md = loc[u].md]_vars

\* the path of the CSV file of signal i of unit u
CsvPath(u, i) == OutputDir(u[1], u[2]) \o <<MESSAGE_CONFIGS[i].csv_name>>

\* the export of unit u has started (its output directory has been made)
Exported(u) == OutputDir(u[1], u[2]) \in outDirs

\* content is the header followed by the rows of an arrangement of series that is
\* non-decreasing in timestamp and keeps equal timestamps in encounter order
IsStableSortedExport(content, series) ==
    /\ Len(content) = Len(series) + 1
    /\ content[1] = Header
    /\ \E perm \in Perms(1..Len(series)) :
          /\ \A i \in 1..Len(series) : content[i + 1] = CsvRow(series[perm[i]])
          /\ \A i, j \in 1..Len(series) :
                i < j => /\ Comparable(series[perm[i]].timestamp, series[perm[j]].timestamp)
                         /\ ~TsLess(series[perm[j]].timestamp, series[perm[i]].timestamp)
                         /\ ~TsLess(series[perm[i]].timestamp, series[perm[j]].timestamp)
                               => perm[i] < perm[j]

\* C4: once a unit is exported, every non-empty series of it has a CSV file made of
\* the header and one row per Data Point, the rows non-decreasing in timestamp and
\* Data Points of equal timestamp in the order they were encountered.
C4_CsvStableSorted ==
    \A u \in Units : Exported(u) =>
       \A i \in 1..NCfg :
          loc[u].md[MESSAGE_CONFIGS[i].key] # <<>> =>
             /\ CsvPath(u, i) \in DOMAIN outTree
             /\ IsStableSortedExport(outTree[CsvPath(u, i)], loc[u].md[MESSAGE_CONFIGS[i].key])

\* the series a file of the output tree is the export of
SeriesOf(path) ==
    loc[<<path[1], path[2]>>].md[
        MESSAGE_CONFIGS[CHOOSE i \in 1..NCfg : MESSAGE_CONFIGS[i].csv_name = path[3]].key]

\* C5: whenever a run is killed or fails, every CSV file of the output tree is fully
\* written: it holds the header and a row for each Data Point of its series, never
\* the header alone or a part of the rows.
C5_NoPartialFile ==
    \A path \in DOMAIN outTree :
       /\ Len(outTree[path]) = Len(SeriesOf(path)) + 1
       /\ outTree[path][1] = Header

\* C6: a second run on the same input tree and output root leaves every CSV file
\* with the content the first run gave it, whatever order the files are listed in.
C6_Idempotent == (run = 2 /\ pc = "done") => outTree = firstOut

\* what extraction followed by the transform yields for a record and a signal
\* definition; null when the record is not of the definition's message type
Yields(record, cfg) ==
    LET msg_obj == RecordMsg(record) IN
    IF ~Truthy(msg_obj) \/ msg_obj.kv[1][1] # cfg.message_type THEN JNull
    ELSE LET fv == get_nested_value(msg_obj.kv[1][2], cfg.field)
         IN  IF fv = JNull THEN JNull ELSE Transform(cfg.transform, fv)

NoNullValue(l) ==
    \A u \in Units : \A key \in ConfigKeys :
       \A i \in 1..Len(l[u].md[key]) : l[u].md[key][i].value # JNull

\* C7: no Data Point of any series ever carries a null value, and a step that
\* handles a record appends a Data Point to the series of a definition exactly when
\* extraction followed by the transform yields a non-null value for that pair.
C7_NoNullDataPoint ==
    [][/\ NoNullValue(loc')
       /\ \A u \in Units :
             (StepsRecord(u) /\ pc' # "crashed") =>
                \A i \in 1..NCfg :
                   LET cfg == MESSAGE_CONFIGS[i]
                       y == Yields(CurRecord(u), cfg)
                   IN  loc'[u].md[cfg.key] =
                          IF y # JNull
                          THEN Append(loc[u].md[cfg.key],
                                      Point(u[1], y, RecordTs(CurRecord(u))))
                          ELSE loc[u].md[cfg.key]]_vars

\* a unit has handled the PentaEngineStatus record whose engine speed is null and
\* whose engine hours are 9: the hours were stored, the speed was not
C7_Witness ==
    \E u \in Units :
       /\ loc[u].recIdx >= 1
       /\ loc[u].records[loc[u].recIdx] = PentaNoTs.v
       /\ Len(loc[u].md["EngineHours"]) = 1
       /\ loc[u].md["EngineHours"][1].value = JNum(9)
       /\ loc[u].md["EngineSpeed"] = <<>>
       /\ loc[u].md["PentaEngineStatus_gear"] # <<>>

\* the units the filters select
Selected ==
    {u \in Units : /\ u[1] \in BoatDirs
                   /\ boatFilter = NoFilter \/ u[1] = boatFilter
                   /\ dayFilter = NoFilter \/ u[2] = dayFilter}

\* the files of the output tree that lie under the directory of unit u
UnitFiles(tree, u) == [p \in {q \in DOMAIN tree : q[1] = u[1] /\ q[2] = u[2]} |-> tree[p]]

\* C8: after a run into an empty output root, the CSV file of a signal of a unit
\* exists if and only if the series is non-empty; a day directory without eligible
\* file gives its unit no CSV file, the other units are processed and the run succeeds.
C8_FileIffSeriesNonEmpty ==
    (Ended /\ ~FatalCondition) =>
       /\ \A u \in Units : \A i \in 1..NCfg :
             CsvPath(u, i) \in DOMAIN outTree <=> loc[u].md[MESSAGE_CONFIGS[i].key] # <<>>
       /\ \A u \in Units :
             loc[u].phase = "skipped" =>
                /\ DOMAIN UnitFiles(outTree, u) = {}
                /\ exitCode = 0
                /\ \A v \in Selected : loc[v].phase \in {"done", "skipped"}

\* the lines of a file that json.loads accepts
Decodes(l) == LineText(l).kind = "json"

DecodedRecords(lines) ==
    [i \in 1..Len(SelectSeq(lines, Decodes)) |-> LineText(SelectSeq(lines, Decodes)[i]).v]

\* C9: the reader returns, in line order, exactly the records of the non-blank lines
\* that decode as JSON, and warns once for each non-blank line that does not decode.
C9_ReaderSkipsOnlyBadLines ==
    \A u \in Units :
       (loc[u].phase = "files" /\ loc[u].fileIdx >= 1 /\ LastRead(u).st = "file") =>
          /\ loc[u].records = DecodedRecords(LastRead(u).lines)
          /\ loc[u].readWarnings =
                Cardinality({i \in NonBlank(LastRead(u).lines) : ~Decodes(LastRead(u).lines[i])})

\* unit u processed alone: the records of its files fold into message_data, which
\* is exported into an empty tree
RECURSIVE FoldRecords(_, _, _, _)
FoldRecords(records, i, st, boat) ==
    IF i > Len(records) \/ st.raised THEN st
    ELSE FoldRecords(records, i + 1, process_record(records[i], st.md, boat), boat)

RECURSIVE FoldFiles(_, _, _, _)
FoldFiles(u, listing, i, st) ==
    IF i > Len(listing) \/ st.raised THEN st
    ELSE FoldFiles(u, listing, i + 1,
                   FoldRecords(read_json_file(files[<<u[1], u[2], listing[i]>>]).records,
                               1, st, u[1]))

UnitAlone(u, listing) ==
    LET st == FoldFiles(u, listing, 1, [raised |-> FALSE, md |-> EmptyMd])
    IN  IF listing = <<>> \/ st.raised THEN NoTree
        ELSE ExportSignals([raised |-> FALSE, tree |-> NoTree, warnings |-> 0],
                           1, NCfg, st.md, OutputDir(u[1], u[2])).tree

\* C10: units are independent: when the run has ended, the files under the
\* directory of each selected unit are what that unit gives when processed alone,
\* whatever the other units hold and in whatever order or interleaving the units
\* ran; every file lies under a selected unit and every row carries its boat's id.
C10_UnitsIndependent ==
    (Ended /\ ~FatalCondition) =>
       /\ \A u \in Selected :
             \E listing \in Listings(u) : UnitFiles(outTree, u) = UnitAlone(u, listing)
       /\ \A p \in DOMAIN outTree :
             /\ <<p[1], p[2]>> \in Selected
             /\ \A i \in 2..Len(outTree[p]) : outTree[p][i][1] = p[1]

\* the names the five gear codes stand for
GearName(n) ==
    CASE n = 0 -> "Neutral" [] n = 1 -> "Forward" [] n = 2 -> "Reverse"
      [] n = 3 -> "NotAvailable" [] n = 255 -> "Unknown"

\* C11: the gear transform is total and passes null through: it never raises, null
\* gives null, the codes 0, 1, 2, 3, 255 give their names, and every other non-null
\* input, of any shape, gives the string "Unknown(<input>)".  A number equal to a
\* code (1.0, True) counts as that code.
C11_GearTransformTotal ==
    gearOut # NotCalled =>
       /\ gearOut.res = "ok"
       /\ gearOut.v =
             IF gearIn = JNull THEN JNull
             ELSE IF IsNumber(gearIn) /\ NumMilli(gearIn) \in {0, 1000, 2000, 3000, 255000}
                  THEN JStr(GearName(NumMilli(gearIn) \div 1000))
                  ELSE JStr("Unknown(" \o Str(gearIn) \o ")")

\* the record has a non-empty payload wrapper, whose first key is its message type
HasMessageType(record) ==
    IsDict(record) /\ IsDict(RecordMsg(record)) /\ Truthy(RecordMsg(record))

\* series `after` is series `before` with one Data Point more, taken by definition
\* cfg from the body of the record, with the boat id and the record's timestamp
GainsPoint(before, after, cfg, record, boat) ==
    LET fv == get_nested_value(RecordMsg(record).kv[1][2], cfg.field)
        pt == after[Len(after)]
    IN  /\ Len(after) = Len(before) + 1
        /\ SubSeq(after, 1, Len(before)) = before
        /\ pt.boat = boat
        /\ HasKey(record, "ts") => pt.timestamp = Lookup(record, "ts")
        /\ fv # JNull
        /\ ~TransformRaises(cfg.transform, fv)
        /\ pt.value = Transform(cfg.transform, fv)

\* C12: processing one record of message type m changes only the series of the
\* definitions whose source message type is m; each of them gains at most one Data
\* Point, with the unit's boat id, the record's timestamp and the value extracted
\* from the body keyed by m; every other series, of this and of every other unit,
\* is unchanged, and a record without message type changes no series.
C12_RecordFrame ==
    [][\A u \in Units :
          StepsRecord(u) =>
             /\ \A v \in Units \ {u} : loc'[v].md = loc[v].md
             /\ \A i \in 1..NCfg :
                   LET cfg == MESSAGE_CONFIGS[i]
                       before == loc[u].md[cfg.key]
                       after == loc'[u].md[cfg.key]
                   IN  IF HasMessageType(CurRecord(u))
                          /\ RecordMsg(CurRecord(u)).kv[1][1] = cfg.message_type
                       THEN \/ after = before
                            \/ GainsPoint(before, after, cfg, CurRecord(u), u[1])
                       ELSE after = before]_vars

\* a unit has handled an Odometry record and then the PentaEngineStatus record: two
\* definitions of that type hold one Data Point each, and the Odometry series still
\* holds the one it had
C12_Witness ==
    \E u \in Units :
       /\ loc[u].recIdx = 2
       /\ loc[u].records[2] = PentaNoTs.v
       /\ Len(loc[u].md["EngineHours"]) = 1
       /\ loc[u].md["EngineHours"][1].boat = u[1]
       /\ loc[u].md["PentaEngineStatus_gear"] = <<Point(u[1], JStr("Reverse"), JStr(""))>>
       /\ Len(loc[u].md["Odometry"]) = 1
       /\ loc[u].md["VolvoFuelLevel"] = <<>>
====
